---- MODULE Spec2Model ----
(***************************************************************************)
(* A model of the LibPass attack orchestration and evaluation programs:    *)
(*   python/evaluator.py         AttackEvaluator                           *)
(*   python/libpass_attack.py    LibPassAttackFramework (basic variant)    *)
(*   python/automated_attack.py  AutomatedAttackFramework                  *)
(*                                                                         *)
(* Python dicts are TLA+ functions from key strings (records); a key that  *)
(* is absent from the dict is absent from the DOMAIN.  Python lists are    *)
(* sequences.  A JSON object read from an engine result file is wrapped    *)
(* by JObject so that the empty object {} and the empty list [] differ.    *)
(* Success rates are exact rationals <<numerator, denominator>>.           *)
(***************************************************************************)
EXTENDS Integers, Sequences, FiniteSets, TLC

\* ------------------------------------------------------------------------
\* Bounds of the model
\* ------------------------------------------------------------------------
\* longest list of outcome records in an evaluated result file
MaxRecords == 3
\* longest list of outcome records in a result file whose records carry
\* per-strategy results
MaxStrategyRecords == 2
\* longest list of per-strategy entries inside one outcome record
MaxEntries == 2
\* most package files in the directory given to a batch
MaxApks == 3
\* longest outcome list of a written document given back to the evaluator
MaxDocumentRecords == 2

\* ------------------------------------------------------------------------
\* Rational arithmetic (the values Python holds as floats)
\* ------------------------------------------------------------------------
RECURSIVE GCD(_, _)
GCD(a, b) == IF b = 0 THEN a ELSE GCD(b, a % b)

Rat(n, d) == LET g == GCD(n, d) IN IF g = 0 THEN <<0, 1>> ELSE <<n \div g, d \div g>>

Zero == Rat(0, 1)
Half == Rat(1, 2)
One == Rat(1, 1)

RatAdd(x, y) == Rat(x[1] * y[2] + y[1] * x[2], x[2] * y[2])

RatDivInt(x, k) == Rat(x[1], x[2] * k)

RatLt(x, y) == x[1] * y[2] < y[1] * x[2]

RatLe(x, y) == x[1] * y[2] <= y[1] * x[2]

RECURSIVE RatSum(_)
RatSum(s) == IF s = <<>> THEN Zero ELSE RatAdd(Head(s), RatSum(Tail(s)))

\* ------------------------------------------------------------------------
\* Python dict access
\* ------------------------------------------------------------------------
EmptyDict == [k \in {} |-> 0]

Get(d, key, default) == IF key \in DOMAIN d THEN d[key] ELSE default

JObject(f) == [object |-> f]

\* what a call has returned: nothing yet, a value, or an exception raised
NoReturn == [returned |-> FALSE]

Return(v) == [returned |-> TRUE, value |-> v]

Raise(e) == [returned |-> FALSE, raised |-> e]

\* Python values whose type the code depends on (None, str, int, float,
\* bool, list, dict), each tagged with its type
PyNone == [py |-> "None"]

PyStr(s) == [py |-> "str", str |-> s]

PyInt(i) == [py |-> "int", int |-> i]

PyFloat(r) == [py |-> "float", float |-> r]

PyBool(b) == [py |-> "bool", bool |-> b]

PyList(l) == [py |-> "list", list |-> l]

PyDict(d) == [py |-> "dict", dict |-> d]

\* str(v)
str(v) ==
    CASE v.py = "str" -> v
      [] v.py = "int" -> PyStr(ToString(v.int))
      [] v.py = "None" -> PyStr("None")

\* ------------------------------------------------------------------------
\* statistics.mean / statistics.median
\* ------------------------------------------------------------------------
Mean(rates) == RatDivInt(RatSum(rates), Len(rates))

Median(rates) ==
    LET sorted == SortSeq(rates, RatLt)
        n == Len(sorted)
    IN  IF n % 2 = 1
        THEN sorted[(n \div 2) + 1]
        ELSE RatDivInt(RatAdd(sorted[n \div 2], sorted[(n \div 2) + 1]), 2)

\* ------------------------------------------------------------------------
\* State
\* ------------------------------------------------------------------------
VARIABLES
    result_file,    \* evaluator: what the result file holds
    self_results,   \* evaluator: AttackEvaluator.results
    self_metrics,   \* evaluator: AttackEvaluator.metrics
    loaded,         \* evaluator: what load_results returned
    returned,       \* evaluator: what evaluate() returned
    report_file,    \* evaluator: the report file save_report writes
    epc,            \* evaluator: position of the evaluation program
    framework,      \* attack: "libpass" (basic variant) or "automated"
    config_file,    \* attack: what the configuration file holds
    self_config,    \* attack: the framework's self.config
    request,        \* attack: the optional arguments of the request (None when unset)
    jars,           \* attack: which engine bundles exist under build/libs
    resolved,       \* attack: the request's optional fields after defaults are filled
    java_cmd,       \* attack: the argument list _build_java_command returned
    operation,      \* attack: "single" (attack_single_apk) or "batch" (attack_batch)
    apk_dir_exists, \* attack: whether the directory given to the batch exists
    apk_files,      \* attack: the package files the directory enumerates, in order
    fs_dirs,        \* attack: the output directories that exist
    created,        \* attack: the output directories the program created
    summary_file,   \* attack: batch_summary.json
    results,        \* attack: the result list of attack_batch
    run_calls,      \* attack: the package of every subprocess.run call, in order
    last_run,       \* attack: what the latest child process did
    last_outcome,   \* attack: what the latest attack_single_apk / native batch returned
    ret,            \* attack: what the operation returned
    raised_by,      \* attack: what raised out of the operation ("none" if nothing)
    pc,             \* attack: position of the attack program
    exit_code       \* the exit status of the command, -1 while it runs

evars == <<result_file, self_results, self_metrics, loaded, returned, report_file, epc>>

cvars == <<config_file, self_config, request, jars, resolved, java_cmd>>

avars == <<framework, cvars, operation, apk_dir_exists, apk_files, fs_dirs, created,
           summary_file, results, run_calls, last_run, last_outcome, ret, raised_by, pc>>

vars == <<evars, avars, exit_code>>

\* ------------------------------------------------------------------------
\* evaluator.py: the result files the evaluator is given
\* ------------------------------------------------------------------------
RECURSIVE SeqsUpTo(_, _)
SeqsUpTo(S, n) ==
    IF n = 0 THEN {<<>>}
    ELSE LET shorter == SeqsUpTo(S, n - 1)
         IN  shorter \cup {Append(s, x) : s \in {t \in shorter : Len(t) = n - 1}, x \in S}

\* optional keys of a record: each key of opt is present or absent
WithOptional(base, key, values) ==
    {base} \cup {base @@ (key :> v) : v \in values}

SuccessFlags(base) == WithOptional(base, "success", {TRUE, FALSE})

\* outcome records that differ in their success flag and overall success rate
RateRecords ==
    UNION {WithOptional(r, "overall_success_rate", {Zero, Half, One}) :
           r \in SuccessFlags(EmptyDict)}

\* per-strategy entries of an outcome's results list: a named strategy with
\* its rate, and an entry with neither key
StrategyEntries == {[strategyName |-> "rename_packages", successRate |-> Half], EmptyDict}

\* successful and failed outcome records that differ in their per-strategy
\* results
StrategyRecords ==
    UNION {WithOptional(r, "results", SeqsUpTo(StrategyEntries, MaxEntries)) :
           r \in {[overall_success_rate |-> Half, success |-> b] : b \in BOOLEAN}}

\* the attack programs before they are started, and while the evaluator runs
NoSummary == [written |-> FALSE]

NoRun == [kind |-> "none"]

NoOutcome == [none |-> TRUE]

NoCommand == <<>>

ConfigIdle ==
    /\ config_file = [kind |-> "absent"]
    /\ self_config = PyNone
    /\ request = EmptyDict
    /\ jars = [primary |-> FALSE, alternate |-> FALSE]
    /\ resolved = NoReturn
    /\ java_cmd = NoCommand

AttackIdle ==
    /\ framework = "none"
    /\ ConfigIdle
    /\ operation = "none"
    /\ apk_dir_exists = FALSE
    /\ apk_files = <<>>
    /\ fs_dirs = {}
    /\ created = {}
    /\ summary_file = NoSummary
    /\ results = <<>>
    /\ run_calls = <<>>
    /\ last_run = NoRun
    /\ last_outcome = NoOutcome
    /\ ret = NoReturn
    /\ raised_by = "none"
    /\ pc = "idle"

\* ------------------------------------------------------------------------
\* evaluator.py: AttackEvaluator
\* ------------------------------------------------------------------------
\* InitialMetrics with the running minimum started at 0.0 like the maximum
InitialMetrics_MinStartsAtZero(rs) ==
    [total_attacks |-> Len(rs),
     successful_attacks |-> 0,
     failed_attacks |-> 0,
     success_rates |-> <<>>,
     average_success_rate |-> Zero,
     median_success_rate |-> Zero,
     max_success_rate |-> Zero,
     min_success_rate |-> Zero,
     strategy_performance |-> EmptyDict,
     tool_specific_performance |-> EmptyDict]

\* the metrics dict evaluate() starts from
InitialMetrics(rs) ==
    [total_attacks |-> Len(rs),
     successful_attacks |-> 0,
     failed_attacks |-> 0,
     success_rates |-> <<>>,
     average_success_rate |-> Zero,
     median_success_rate |-> Zero,
     max_success_rate |-> Zero,
     min_success_rate |-> One,
     strategy_performance |-> EmptyDict,
     tool_specific_performance |-> EmptyDict]

\* AddStrategies with the bucket assigned instead of appended to
RECURSIVE AddStrategies_Overwrite(_, _)
AddStrategies_Overwrite(perf, entries) ==
    IF entries = <<>> THEN perf
    ELSE LET strategy_result == Head(entries)
             strategy_name == Get(strategy_result, "strategyName", "unknown")
             strategy_rate == Get(strategy_result, "successRate", Zero)
             perf1 == [n \in DOMAIN perf \cup {strategy_name} |->
                          IF n = strategy_name THEN <<strategy_rate>> ELSE perf[n]]
         IN  AddStrategies_Overwrite(perf1, Tail(entries))

\* the inner loop of evaluate(): one record's per-strategy entries appended
\* to the buckets of strategy_performance
RECURSIVE AddStrategies(_, _)
AddStrategies(perf, entries) ==
    IF entries = <<>> THEN perf
    ELSE LET strategy_result == Head(entries)
             strategy_name == Get(strategy_result, "strategyName", "unknown")
             strategy_rate == Get(strategy_result, "successRate", Zero)
             bucket == IF strategy_name \in DOMAIN perf THEN perf[strategy_name] ELSE <<>>
             perf1 == [n \in DOMAIN perf \cup {strategy_name} |->
                          IF n = strategy_name THEN Append(bucket, strategy_rate)
                          ELSE perf[n]]
         IN  AddStrategies(perf1, Tail(entries))

\* one iteration of the record loop of evaluate()
CountRecord(m, result) ==
    IF Get(result, "success", FALSE)
    THEN LET success_rate == Get(result, "overall_success_rate", Zero)
         IN  [m EXCEPT
                !.successful_attacks = @ + 1,
                !.success_rates = Append(@, success_rate),
                !.max_success_rate = IF RatLt(@, success_rate) THEN success_rate ELSE @,
                !.min_success_rate = IF RatLt(success_rate, @) THEN success_rate ELSE @,
                !.strategy_performance = AddStrategies(@, Get(result, "results", <<>>))]
    ELSE [m EXCEPT !.failed_attacks = @ + 1]

RECURSIVE CountRecords(_, _)
CountRecords(m, rs) ==
    IF rs = <<>> THEN m ELSE CountRecords(CountRecord(m, Head(rs)), Tail(rs))

\* the summary of one strategy bucket
StrategySummary(rates) ==
    [average |-> Mean(rates), median |-> Median(rates), count |-> Len(rates)]

\* the statistics evaluate() computes after the record loop
Summarise(m) ==
    IF m.success_rates # <<>>
    THEN [m EXCEPT
            !.average_success_rate = Mean(m.success_rates),
            !.median_success_rate = Median(m.success_rates),
            !.strategy_performance = [n \in DOMAIN @ |-> StrategySummary(@[n])]]
    ELSE m

\* what evaluate() returns for a non-empty self.results
ComputeMetrics(rs) == Summarise(CountRecords(InitialMetrics(rs), rs))

\* what evaluate() returns when self.results is empty
EmptyResultMetrics == EmptyDict

\* ------------------------------------------------------------------------
\* The documents the programs write
\* ------------------------------------------------------------------------
\* the success rates _output_batch_summary averages
SuccessRatesOf(rs) ==
    LET successful == SelectSeq(rs, LAMBDA r : Get(r, "success", FALSE))
    IN  [i \in 1..Len(successful) |-> Get(successful[i], "overall_success_rate", Zero)]

\* BatchSummary with the rates averaged over every outcome of the batch
BatchSummary_AverageOverAll(rs) ==
    LET total == Len(rs)
        success_count == Len(SelectSeq(rs, LAMBDA r : Get(r, "success", FALSE)))
        success_rates == SuccessRatesOf(rs)
        avg_success_rate == IF success_rates # <<>>
                            THEN RatDivInt(RatSum(success_rates), total)
                            ELSE Zero
    IN  [total_apks |-> total,
         successful_attacks |-> success_count,
         failed_attacks |-> total - success_count,
         average_success_rate |-> avg_success_rate,
         detailed_results |-> rs]

\* the document _output_batch_summary writes
BatchSummary(rs) ==
    LET total == Len(rs)
        success_count == Len(SelectSeq(rs, LAMBDA r : Get(r, "success", FALSE)))
        success_rates == SuccessRatesOf(rs)
        avg_success_rate == IF success_rates # <<>>
                            THEN RatDivInt(RatSum(success_rates), Len(success_rates))
                            ELSE Zero
    IN  [total_apks |-> total,
         successful_attacks |-> success_count,
         failed_attacks |-> total - success_count,
         average_success_rate |-> avg_success_rate,
         detailed_results |-> rs]

\* the document save_report writes
Report(metrics, rs) == [metrics |-> metrics, detailed_results |-> rs]

\* the outcome lists whose written documents are given back to the evaluator
DocumentOutcomes == SeqsUpTo(RateRecords, MaxDocumentRecords)

\* batch_summary.json as _output_batch_summary writes it for a batch, and the
\* report main() saves after loading and evaluating an outcome list
WrittenDocuments ==
    {BatchSummary(l) : l \in DocumentOutcomes}
    \cup {Report(IF l = <<>> THEN EmptyDict ELSE ComputeMetrics(l), l) : l \in DocumentOutcomes}

\* ------------------------------------------------------------------------
\* evaluator.py: the result file, read when load_results opens it
\* ------------------------------------------------------------------------
Unopened == [kind |-> "unopened"]

NoFile == [kind |-> "unreadable"]

ResultFiles ==
    {NoFile}
    \cup {[kind |-> "list", data |-> l] : l \in SeqsUpTo(RateRecords, MaxRecords)}
    \cup {[kind |-> "list", data |-> l] :
             l \in SeqsUpTo(StrategyRecords, MaxStrategyRecords)}
    \cup {[kind |-> "object", data |-> r] : r \in RateRecords \cup StrategyRecords}
    \cup {[kind |-> "object", data |-> d] : d \in WrittenDocuments}

\* AttackEvaluator.load_results
load_results ==
    /\ epc = "start"
    /\ \E f \in ResultFiles :
          /\ result_file' = f
          /\ IF f.kind = "unreadable"
             THEN /\ loaded' = Return(FALSE)
                  /\ UNCHANGED self_results
             ELSE /\ self_results' = IF f.kind = "list" THEN f.data ELSE <<f.data>>
                  /\ loaded' = Return(TRUE)
    /\ epc' = "loaded"
    /\ UNCHANGED <<self_metrics, returned, report_file, avars, exit_code>>

\* AttackEvaluator.evaluate
evaluate ==
    /\ epc \in {"start", "loaded"}
    /\ IF self_results = <<>>
       THEN /\ returned' = Return(EmptyResultMetrics)
            /\ UNCHANGED self_metrics
       ELSE /\ self_metrics' = ComputeMetrics(self_results)
            /\ returned' = Return(self_metrics')
    /\ epc' = "evaluated"
    /\ UNCHANGED <<result_file, self_results, loaded, report_file, avars, exit_code>>

\* AttackEvaluator.print_report: evaluates first when self.metrics is empty,
\* then reads the counts of self.metrics; the KeyError for absent counts
\* leaves main() by a traceback, exit status 1
print_report ==
    /\ epc = "evaluated"
    /\ LET m == IF self_metrics = EmptyDict /\ self_results # <<>>
                THEN ComputeMetrics(self_results)
                ELSE self_metrics
       IN  /\ self_metrics' = m
           /\ IF "total_attacks" \in DOMAIN m
              THEN /\ epc' = "printed"
                   /\ UNCHANGED exit_code
              ELSE /\ epc' = "raised"
                   /\ exit_code' = 1
    /\ UNCHANGED <<result_file, self_results, loaded, returned, report_file, avars>>

\* AttackEvaluator.save_report, the last statement of main(): the report is
\* written and the command ends with status 0, or open() raises and the
\* command ends by a traceback
save_report ==
    /\ epc \in {"evaluated", "printed"}
    /\ \E writable \in BOOLEAN :
          IF writable
          THEN /\ report_file' = [written |-> TRUE,
                                  content |-> Report(self_metrics, self_results)]
               /\ epc' = "exited"
               /\ exit_code' = 0
          ELSE /\ epc' = "raised"
               /\ exit_code' = 1
               /\ UNCHANGED report_file
    /\ UNCHANGED <<result_file, self_results, self_metrics, loaded, returned, avars>>

InitEval ==
    /\ result_file = Unopened
    /\ self_results = <<>>
    /\ self_metrics = EmptyDict
    /\ loaded = NoReturn
    /\ returned = NoReturn
    /\ report_file = NoSummary
    /\ epc = "start"
    /\ exit_code = -1
    /\ AttackIdle

NextEval ==
    \/ load_results
    \/ evaluate
    \/ print_report
    \/ save_report

SpecEval == InitEval /\ [][NextEval]_vars

\* ------------------------------------------------------------------------
\* Properties of AttackEvaluator
\* ------------------------------------------------------------------------
CountKeys == {"total_attacks", "successful_attacks", "failed_attacks"}

\* C1: whatever list of outcome records is loaded, the metrics evaluate()
\* returns carry the three counts and total_attacks is the sum of
\* successful_attacks and failed_attacks.
C1_TotalIsSuccessfulPlusFailed ==
    (epc = "evaluated" /\ loaded = Return(TRUE)) =>
        /\ CountKeys \subseteq DOMAIN returned.value
        /\ returned.value.total_attacks = returned.value.successful_attacks + returned.value.failed_attacks

\* the same equation for the non-empty lists alone (holds)
NonEmptyTotalIsSuccessfulPlusFailed ==
    (epc = "evaluated" /\ self_results # <<>>) =>
        /\ CountKeys \subseteq DOMAIN returned.value
        /\ returned.value.total_attacks = returned.value.successful_attacks + returned.value.failed_attacks
        /\ returned.value.total_attacks = Len(self_results)

\* C4: for an empty result set evaluate() returns metrics whose three counts
\* are all zero.
C4_EmptyResultSetHasZeroCounts ==
    (epc = "evaluated" /\ self_results = <<>>) =>
        /\ CountKeys \subseteq DOMAIN returned.value
        /\ \A k \in CountKeys : returned.value[k] = 0

\* the strategy names per-strategy entries can carry, with the default bucket
StrategyNames == {"rename_packages", "unknown"}

NameOf(entry) == Get(entry, "strategyName", "unknown")

Successful(r) == Get(r, "success", FALSE)

\* the number of loaded outcome records whose results list names strategy S
RecordsNaming(S) ==
    Cardinality({i \in 1..Len(self_results) :
        \E j \in 1..Len(Get(self_results[i], "results", <<>>)) :
            NameOf(Get(self_results[i], "results", <<>>)[j]) = S})

\* the number of per-strategy entries naming S in the successful loaded records
EntriesNaming(S) ==
    Cardinality(UNION {
        {<<i, j>> : j \in {k \in 1..Len(Get(self_results[i], "results", <<>>)) :
                               NameOf(Get(self_results[i], "results", <<>>)[k]) = S}} :
        i \in {n \in 1..Len(self_results) : Successful(self_results[n])}})

\* no unsuccessful loaded record carries per-strategy results
FailedRecordsCarryNoResults ==
    \A i \in 1..Len(self_results) :
        Successful(self_results[i]) \/ Get(self_results[i], "results", <<>>) = <<>>

\* the count evaluate() reports for strategy S (0 when it reports none)
ReportedCount(S) ==
    LET perf == Get(returned.value, "strategy_performance", EmptyDict)
    IN  IF S \in DOMAIN perf THEN perf[S].count ELSE 0

\* C9 as stated: the reported count of a strategy is the number of loaded
\* outcome records in which the strategy appeared (stated here for the result
\* files whose unsuccessful records carry no per-strategy results).
C9_CountIsRecordsNamingStrategy ==
    (epc = "evaluated" /\ FailedRecordsCarryNoResults) => \A S \in StrategyNames : ReportedCount(S) = RecordsNaming(S)

\* C9 amended: after evaluate() on a non-empty result list, a strategy has an
\* entry in strategy_performance exactly when a successful record's results
\* list holds an entry with that name ('unknown' for an entry without
\* strategyName), and its count is the number of those entries.
C9_CountIsEntriesOfSuccessfulRecords ==
    (epc = "evaluated" /\ self_results # <<>>) =>
        /\ DOMAIN returned.value.strategy_performance = {S \in StrategyNames : EntriesNaming(S) > 0}
        /\ \A S \in DOMAIN returned.value.strategy_performance :
               returned.value.strategy_performance[S].count = EntriesNaming(S)

\* a successful record names one strategy twice and a failed record names it too
C9_Witness ==
    /\ epc = "evaluated"
    /\ self_results # <<>>
    /\ \E S \in StrategyNames :
          /\ EntriesNaming(S) >= 2
          /\ RecordsNaming(S) < EntriesNaming(S)
    /\ \E i \in 1..Len(self_results) :
          /\ ~Successful(self_results[i])
          /\ Get(self_results[i], "results", <<>>) # <<>>

\* the least and the greatest element of a non-empty sequence of rates
SeqMin(rates) == CHOOSE x \in {rates[i] : i \in 1..Len(rates)} :
                     \A i \in 1..Len(rates) : RatLe(x, rates[i])

SeqMax(rates) == CHOOSE x \in {rates[i] : i \in 1..Len(rates)} :
                     \A i \in 1..Len(rates) : RatLe(rates[i], x)

\* C10: when evaluate() produces a non-empty success_rates sequence, the
\* reported minimum and maximum are the minimum and maximum of that
\* sequence, and both the median and the mean lie between them.
C10_MinMaxBoundMedianAndMean ==
    (epc = "evaluated" /\ self_results # <<>> /\ returned.value.success_rates # <<>>) =>
        /\ returned.value.min_success_rate = SeqMin(returned.value.success_rates)
        /\ returned.value.max_success_rate = SeqMax(returned.value.success_rates)
        /\ RatLe(returned.value.min_success_rate, returned.value.median_success_rate)
        /\ RatLe(returned.value.median_success_rate, returned.value.max_success_rate)
        /\ RatLe(returned.value.min_success_rate, returned.value.average_success_rate)
        /\ RatLe(returned.value.average_success_rate, returned.value.max_success_rate)

\* three successful records with three different rates, loaded out of order
C10_Witness ==
    /\ epc = "evaluated"
    /\ self_results # <<>>
    /\ Len(returned.value.success_rates) = 3
    /\ returned.value.success_rates[1] = One
    /\ returned.value.success_rates[2] = Zero
    /\ returned.value.success_rates[3] = Half
    /\ returned.value.median_success_rate = Half

\* the aggregate statistics of an evaluation
AggregateKeys == {"total_attacks", "successful_attacks", "failed_attacks",
                  "average_success_rate", "median_success_rate",
                  "max_success_rate", "min_success_rate"}

SameAggregates(a, b) ==
    /\ AggregateKeys \cap DOMAIN a = AggregateKeys \cap DOMAIN b
    /\ \A k \in AggregateKeys \cap DOMAIN a : a[k] = b[k]

\* what evaluate() returns when self.results is rs
DirectEvaluation(rs) == IF rs = <<>> THEN EmptyResultMetrics ELSE ComputeMetrics(rs)

\* the loaded file is a document written from a non-empty list of outcomes
LoadedWrittenDocument ==
    /\ loaded = Return(TRUE)
    /\ result_file.kind = "object"
    /\ "detailed_results" \in DOMAIN result_file.data
    /\ result_file.data.detailed_results # <<>>

\* C11: when the loaded file is the BatchSummary document or the evaluation
\* report written from a list of outcomes, evaluate() returns the aggregate
\* statistics (counts, mean, median, max, min) that evaluating those outcomes
\* directly returns.
C11_ReloadedDocumentEvaluatesAlike ==
    (epc = "evaluated" /\ LoadedWrittenDocument) =>
        SameAggregates(returned.value, DirectEvaluation(result_file.data.detailed_results))

\* the command has ended after load_results returned
Ended == epc \in {"exited", "raised"} /\ loaded # NoReturn

\* C16: the evaluation command that ends normally after the result file
\* loaded exits 0, and after a failed load_results it exits non-zero and has
\* saved no report.
C16_ExitZeroExactlyWhenLoaded ==
    Ended =>
        /\ (loaded = Return(TRUE) /\ epc = "exited") => exit_code = 0
        /\ loaded = Return(FALSE) => (exit_code # 0 /\ ~report_file.written)

\* ------------------------------------------------------------------------
\* The external engine: what one child process can do
\* ------------------------------------------------------------------------
\* the result file in the output directory after the child ran
Absent == [state |-> "absent"]
Malformed == [state |-> "malformed"]
Valid(content) == [state |-> "valid", content |-> content]

\* per-strategy records the basic engine writes to attack_results.json
EngineEntries == {[strategyName |-> "rename_packages", successRate |-> One],
                  [strategyName |-> "rename_classes"]}

BasicFiles == {Absent, Malformed} \cup {Valid(l) : l \in SeqsUpTo(EngineEntries, MaxEntries)}

\* objects the automated engine writes to automated_attack_result.json
AutomatedFiles == {Absent, Malformed, Valid(JObject(EmptyDict)),
                   Valid(JObject([attackSuccess |-> TRUE]))}

\* objects the automated engine writes to batch_attack_result.json
NativeBatchFiles == {Absent, Malformed, Valid(JObject(EmptyDict)),
                     Valid(JObject([successRate |-> Half, successCount |-> 1, totalApks |-> 2])),
                     Valid(JObject([successCount |-> 1]))}

\* subprocess.run: the child exits zero leaving one of files, exits non-zero
\* or is killed at the timeout leaving one of partial, or the call raises
\* before a child exists (the executable is missing)
Runs(files, partial) ==
    {[kind |-> "exit", returncode |-> 0, stdout |-> "out", stderr |-> "err", file |-> f] :
        f \in files}
    \cup {[kind |-> "exit", returncode |-> 1, stdout |-> "out", stderr |-> "err", file |-> f] :
        f \in partial}
    \cup {[kind |-> "timeout", stdout |-> "out", stderr |-> "err", file |-> f] :
        f \in partial}
    \cup {[kind |-> "oserror", file |-> Absent]}

\* the runs of the basic engine, of the automated engine on one package and
\* of the automated engine on a directory
BasicRuns ==
    Runs(BasicFiles,
         {Absent, Malformed, Valid(<<[strategyName |-> "rename_packages", successRate |-> One]>>)})

AutomatedRuns == Runs(AutomatedFiles, AutomatedFiles)

NativeBatchRuns == Runs(NativeBatchFiles, NativeBatchFiles)

\* subprocess.run of an argument list: a list holding None raises TypeError
\* before a child exists
RunsOf(cmd, runs) ==
    IF \E i \in 1..Len(cmd) : cmd[i].py = "None"
    THEN {[kind |-> "typeerror", file |-> Absent]}
    ELSE runs

\* the exception the try body raises for a run, "none" if it completes
Raised(run) ==
    CASE run.kind = "timeout" -> "TimeoutExpired"
      [] run.kind = "oserror" -> "OSError"
      [] run.kind = "typeerror" -> "TypeError"
      [] run.kind = "exit" /\ run.returncode = 0 /\ run.file.state = "malformed" ->
            "JSONDecodeError"
      [] OTHER -> "none"

TimeoutMessage == "execution timed out"

\* ------------------------------------------------------------------------
\* Configuration: load_config, get_default_config and the defaults a request
\* takes from self.config
\* ------------------------------------------------------------------------
DefaultAndroidJar == PyStr("/opt/android-sdk/platforms/android-30/android.jar")

DefaultOutputDir == PyStr(<<"./output">>)

DefaultDetectorType == PyStr("LibScan")

DefaultMaxIterations == 100

\* LibPassAttackFramework.get_default_config
LibPass_get_default_config ==
    PyDict([attack |-> PyDict([strategies |->
                                  PyList(<<"rename_packages", "rename_classes",
                                           "modify_signatures", "inject_fake_libraries">>),
                               target_success_rate |-> PyFloat(Rat(17, 20)),
                               target_tools |->
                                  PyList(<<"LibPass", "LibScout", "LibRadar", "LibID">>)]),
            soot |-> PyDict([android_jar |-> DefaultAndroidJar,
                             output_dir |-> DefaultOutputDir,
                             process_dir |-> PyStr("./process"),
                             verbose |-> PyBool(FALSE)])])

\* AutomatedAttackFramework.get_default_config
Automated_get_default_config ==
    PyDict([detector |-> PyDict([type |-> DefaultDetectorType,
                                 libscan_path |-> PyStr("TPL_Detectors/LibScan/tool/LibScan.py"),
                                 libscan_tool_dir |-> PyStr("TPL_Detectors/LibScan/tool")]),
            attack |-> PyDict([max_iterations |-> PyInt(DefaultMaxIterations),
                               target_success_rate |-> PyFloat(Rat(9, 10))])])

get_default_config(fw) ==
    IF fw = "libpass" THEN LibPass_get_default_config ELSE Automated_get_default_config

\* the sections a YAML document can hold under one name: the section as the
\* defaults have it, an empty mapping, a mapping with some keys (one of them
\* null), and a section name with nothing under it
SectionsLike(section, some) == {section, PyDict(EmptyDict), PyDict(some), PyNone}

\* what yaml.safe_load returns for the documents of a framework: None for an
\* empty document, a list, and mappings holding none, one or both sections
Documents(first, second, firsts, seconds) ==
    {PyNone, PyList(<<>>), PyDict(EmptyDict)}
    \cup {PyDict((first :> a)) : a \in firsts}
    \cup {PyDict((second :> b)) : b \in seconds}
    \cup {PyDict((first :> a) @@ (second :> b)) : a \in firsts, b \in seconds}

LibPassDocuments ==
    Documents("soot", "attack",
              SectionsLike(LibPass_get_default_config.dict.soot,
                           [android_jar |-> PyNone, output_dir |-> PyStr(<<"out">>)]),
              SectionsLike(LibPass_get_default_config.dict.attack,
                           [strategies |-> PyNone]))

AutomatedDocuments ==
    Documents("attack", "detector",
              SectionsLike(Automated_get_default_config.dict.attack,
                           [max_iterations |-> PyNone]),
              SectionsLike(Automated_get_default_config.dict.detector,
                           [type |-> PyStr("LibID")]))

\* the configuration file: not there, there but not readable, not YAML, or a
\* YAML document
ConfigFiles(fw) ==
    {[kind |-> "absent"], [kind |-> "unreadable"], [kind |-> "malformed"]}
    \cup {[kind |-> "valid", document |-> d] :
             d \in IF fw = "libpass" THEN LibPassDocuments ELSE AutomatedDocuments}

\* the exception open() or yaml.safe_load raises for a configuration file
ConfigRaised(file) ==
    CASE file.kind = "absent" -> "FileNotFoundError"
      [] file.kind = "unreadable" -> "PermissionError"
      [] file.kind = "malformed" -> "YAMLError"
      [] OTHER -> "none"

\* ConfigCaught without the trailing except Exception clause
ConfigCaught_FileNotFoundOnly == {"FileNotFoundError"}

\* the exceptions the except clauses of load_config catch
ConfigCaught == {"FileNotFoundError", "PermissionError", "YAMLError"}

\* load_config of either framework
load_config(fw, file) ==
    IF ConfigRaised(file) = "none" THEN Return(file.document)
    ELSE IF ConfigRaised(file) \in ConfigCaught THEN Return(get_default_config(fw))
    ELSE Raise(ConfigRaised(file))

\* self.config.get(section, {}).get(key, default)
ConfigGet(config, section, key, default) ==
    IF config.py # "dict" THEN Raise("AttributeError")
    ELSE LET sec == Get(config.dict, section, PyDict(EmptyDict))
         IN  IF sec.py # "dict" THEN Raise("AttributeError")
             ELSE Return(Get(sec.dict, key, default))

\* an optional argument: the given value, or when it is None the configured one
OrConfigured(given, config, section, key, default) ==
    IF given.py = "None" THEN ConfigGet(config, section, key, default) ELSE Return(given)

\* the optional fields a request of a framework carries
OptionalFields(fw) ==
    IF fw = "libpass" THEN {"android_jar", "output_dir", "strategies"}
    ELSE {"max_iterations", "detector_type"}

\* where self.config holds the default of an optional field, and the
\* fallback literal of the lookup
Configured(field) ==
    CASE field = "android_jar" -> <<"soot", "android_jar", DefaultAndroidJar>>
      [] field = "output_dir" -> <<"soot", "output_dir", DefaultOutputDir>>
      [] field = "strategies" -> <<"attack", "strategies", PyList(<<>>)>>
      [] field = "max_iterations" -> <<"attack", "max_iterations", PyInt(DefaultMaxIterations)>>
      [] field = "detector_type" -> <<"detector", "type", DefaultDetectorType>>

\* the head of attack_single_apk / attack_batch: every optional field of the
\* request resolved, or the AttributeError of the first lookup that fails
ResolveDefaults(fw, config, req) ==
    LET got == [f \in OptionalFields(fw) |->
                   OrConfigured(req[f], config, Configured(f)[1], Configured(f)[2],
                                Configured(f)[3])]
    IN  IF \E f \in OptionalFields(fw) : ~got[f].returned
        THEN Raise("AttributeError")
        ELSE Return([f \in OptionalFields(fw) |-> got[f].value])

\* ------------------------------------------------------------------------
\* Paths of the output tree
\* ------------------------------------------------------------------------
\* the output directory given on the command line, and a package's own
Base == <<"output">>

PackageDir(apk_file) == <<"output", apk_file>>

\* Path.mkdir(parents=True, exist_ok=True)
Parents(dir) == IF Len(dir) = 1 THEN {dir} ELSE {<<dir[1]>>, dir}

\* a str holding a path
PyPath(dir) == [py |-> "str", str |-> dir]

\* the output directory main() passes on
GivenOutputDir == PyPath(Base)

\* ------------------------------------------------------------------------
\* _build_java_command: the argument list handed to the engine
\* ------------------------------------------------------------------------
\* base_dir/build/libs/<bundle>, base_dir/build/classes/java/main:base_dir/libs/*
PrimaryJar(fw) ==
    IF fw = "libpass" THEN PyStr("build/libs/libpass-attack-1.0.0.jar")
    ELSE PyStr("build/libs/src-1.0.0.jar")

AlternateJar(fw) ==
    IF fw = "libpass" THEN PyStr("build/libs/libpass-attack-all.jar")
    ELSE PyStr("build/libs/src-all.jar")

ClassDirectories == PyStr("build/classes/java/main:libs/*")

java_main_class(fw) ==
    IF fw = "libpass" THEN PyStr("com.libpass.attack.LibPassAttackMain")
    ELSE PyStr("com.libpass.attack.AutomatedAttackMain")

\* Path.exists() of a bundle
Exists(fw, path, bundles) ==
    IF path = PrimaryJar(fw) THEN bundles.primary ELSE bundles.alternate

\* Classpath with the alternate bundle looked for first
Classpath_AlternateFirst(fw, bundles) ==
    LET jar_path == IF ~Exists(fw, AlternateJar(fw), bundles)
                    THEN PrimaryJar(fw) ELSE AlternateJar(fw)
    IN  IF Exists(fw, jar_path, bundles) THEN jar_path ELSE ClassDirectories

\* the classpath element: jar_path is the primary bundle, replaced by the
\* alternate one when the primary does not exist; the class directories are
\* used when jar_path does not exist
Classpath(fw, bundles) ==
    LET jar_path == IF ~Exists(fw, PrimaryJar(fw), bundles)
                    THEN AlternateJar(fw) ELSE PrimaryJar(fw)
    IN  IF Exists(fw, jar_path, bundles) THEN jar_path ELSE ClassDirectories

\* LibPassAttackFramework._build_java_command
LibPass_build_java_command(bundles, apk_path, android_jar, output_dir) ==
    <<PyStr("java"), PyStr("-cp"), Classpath("libpass", bundles), java_main_class("libpass"),
      apk_path, android_jar, output_dir>>

\* AutomatedAttackFramework._build_java_command
Automated_build_java_command(bundles, apk_path, tpl_path, tpl_name, android_jar, output_dir, detector_type, max_iterations) ==
    <<PyStr("java"), PyStr("-cp"), Classpath("automated", bundles),
      java_main_class("automated"),
      apk_path, tpl_path, tpl_name, android_jar, output_dir, detector_type,
      str(max_iterations)>>

\* the arguments main() always passes
TplPath == PyStr("lib.jar")

TplName == PyStr("lib")

GivenAndroidJar == PyStr("android.jar")


\* the command attack_single_apk / attack_batch builds once the optional
\* fields are resolved to opt; the basic variant takes the platform jar and
\* the output directory from opt, the automated variant is given both
BuildCommand(fw, bundles, apk_path, opt) ==
    IF fw = "libpass"
    THEN LibPass_build_java_command(bundles, apk_path, opt.android_jar, opt.output_dir)
    ELSE Automated_build_java_command(bundles, apk_path, TplPath, TplName, GivenAndroidJar,
                                      GivenOutputDir, opt.detector_type, opt.max_iterations)

\* the optional arguments a caller can pass: each one given or left None
Requests(fw) ==
    IF fw = "libpass"
    THEN [android_jar : {PyNone, GivenAndroidJar},
          output_dir : {PyNone, GivenOutputDir},
          strategies : {PyNone, PyList(<<"rename_classes">>)}]
    ELSE [max_iterations : {PyNone, PyInt(7)},
          detector_type : {PyNone, PyStr("LibID")}]

\* ------------------------------------------------------------------------
\* libpass_attack.py: LibPassAttackFramework
\* ------------------------------------------------------------------------
\* LibPassAttackFramework._calculate_success_rate
calculate_success_rate(attack_results) ==
    IF attack_results = <<>> THEN Zero
    ELSE RatDivInt(
            RatSum([i \in 1..Len(attack_results) |->
                       Get(attack_results[i], "successRate", Zero)]),
            Len(attack_results))

\* LibPassCaught without the trailing except Exception clause
LibPassCaught_TimeoutOnly == {"TimeoutExpired"}

\* the exceptions the except clauses of attack_single_apk catch
LibPassCaught == {"TimeoutExpired", "OSError", "TypeError", "JSONDecodeError"}

\* LibPassOutcome with a missing result file reported as a failure
LibPassOutcome_MissingFileFails(apk_path, output_dir, run) ==
    CASE Raised(run) = "TimeoutExpired" ->
            [success |-> FALSE, apk_path |-> apk_path, error |-> TimeoutMessage]
      [] Raised(run) \in {"OSError", "TypeError", "JSONDecodeError"} ->
            [success |-> FALSE, apk_path |-> apk_path, error |-> Raised(run)]
      [] Raised(run) = "none" /\ run.returncode = 0 /\ run.file.state = "valid" ->
            [success |-> TRUE,
             apk_path |-> apk_path,
             output_dir |-> output_dir,
             results |-> run.file.content,
             overall_success_rate |-> calculate_success_rate(run.file.content),
             stdout |-> run.stdout,
             stderr |-> run.stderr]
      [] Raised(run) = "none" /\ run.returncode = 0 ->
            [success |-> FALSE, apk_path |-> apk_path,
             error |-> "FileNotFoundError", stdout |-> run.stdout]
      [] OTHER ->
            [success |-> FALSE, apk_path |-> apk_path,
             error |-> run.stderr, stdout |-> run.stdout]

\* the dict attack_single_apk returns once subprocess.run has been called
LibPassOutcome(apk_path, output_dir, run) ==
    CASE Raised(run) = "TimeoutExpired" ->
            [success |-> FALSE, apk_path |-> apk_path, error |-> TimeoutMessage]
      [] Raised(run) \in {"OSError", "TypeError", "JSONDecodeError"} ->
            [success |-> FALSE, apk_path |-> apk_path, error |-> Raised(run)]
      [] Raised(run) = "none" /\ run.returncode = 0 ->
            LET attack_results ==
                    IF run.file.state = "valid" THEN run.file.content ELSE <<>>
            IN  [success |-> TRUE,
                 apk_path |-> apk_path,
                 output_dir |-> output_dir,
                 results |-> attack_results,
                 overall_success_rate |-> calculate_success_rate(attack_results),
                 stdout |-> run.stdout,
                 stderr |-> run.stderr]
      [] OTHER ->
            [success |-> FALSE, apk_path |-> apk_path,
             error |-> run.stderr, stdout |-> run.stdout]

\* main(): sys.exit(0 if success_count > 0 else 1) after attack_batch
LibPassBatchExit(rs) ==
    IF Len(SelectSeq(rs, LAMBDA r : Get(r, "success", FALSE))) > 0 THEN 0 ELSE 1

\* main(): sys.exit(0) when result['success'], sys.exit(1) when not; a
\* result without the key ends main() by the traceback of a KeyError
ResultExit(result) ==
    IF "success" \notin DOMAIN result THEN 1
    ELSE IF result.success THEN 0 ELSE 1

\* the end of attack_batch: _output_batch_summary opens batch_summary.json in
\* the output directory (which must exist), the result list is returned and
\* main() exits on the number of successes
FinishBatch(rs, dirs) ==
    IF Base \in dirs
    THEN /\ summary_file' = [written |-> TRUE, content |-> BatchSummary(rs)]
         /\ ret' = Return(rs)
         /\ raised_by' = "none"
         /\ pc' = "done"
         /\ exit_code' = LibPassBatchExit(rs)
    ELSE /\ raised_by' = "summary"
         /\ pc' = "raised"
         /\ exit_code' = 1
         /\ UNCHANGED <<summary_file, ret>>

\* LibPassDirMissing with the existence check left out
LibPassDirMissing_Unchecked == FALSE

\* attack_batch refuses a directory that does not exist
LibPassDirMissing == ~apk_dir_exists

\* LibPassAttackFramework.attack_batch, up to the package loop; for a missing
\* directory main() exits 1, at its own check and on the empty list alike
LibPass_attack_batch ==
    /\ pc = "start"
    /\ framework = "libpass"
    /\ operation = "batch"
    /\ IF LibPassDirMissing
       THEN /\ ret' = Return(<<>>)
            /\ pc' = "done"
            /\ exit_code' = LibPassBatchExit(<<>>)
            /\ UNCHANGED <<summary_file, raised_by>>
       ELSE IF apk_files = <<>>
       THEN FinishBatch(<<>>, fs_dirs)
       ELSE /\ pc' = "loop"
            /\ UNCHANGED <<summary_file, ret, raised_by, exit_code>>
    /\ UNCHANGED <<evars, framework, cvars, operation, apk_dir_exists, apk_files, fs_dirs,
                   created, results, run_calls, last_run, last_outcome>>

\* what the caller does with the dict attack_single_apk returned: main()
\* exits on it, the package loop of attack_batch appends it to the result
\* list and, after the last package, writes the summary
Returned(outcome) ==
    IF operation = "single"
    THEN /\ ret' = Return(outcome)
         /\ pc' = "done"
         /\ exit_code' = ResultExit(outcome)
         /\ UNCHANGED <<raised_by, summary_file, results>>
    ELSE /\ results' = Append(results, outcome)
         /\ IF Len(results') = Len(apk_files)
            THEN FinishBatch(results', fs_dirs')
            ELSE UNCHANGED <<summary_file, ret, raised_by, pc, exit_code>>

\* attack_single_apk of the basic variant, from its first statement to its
\* return, for the package apk_file and the optional arguments req; an
\* exception no clause catches ends the command
LibPassAttack(apk_file, req) ==
    LET opt == ResolveDefaults("libpass", self_config, req)
    IN  /\ resolved' = opt
        /\ IF ~opt.returned
           THEN /\ raised_by' = "config"
                /\ pc' = "raised"
                /\ exit_code' = 1
                /\ UNCHANGED <<java_cmd, fs_dirs, created, summary_file, results, run_calls,
                               last_run, last_outcome, ret>>
           ELSE LET output_dir == opt.value.output_dir.str
                    cmd == BuildCommand("libpass", jars, PyPath(apk_file), opt.value)
                IN  \E mkdir_ok \in BOOLEAN, run \in RunsOf(cmd, BasicRuns) :
                      IF ~mkdir_ok
                      THEN /\ raised_by' = "mkdir"
                           /\ pc' = "raised"
                           /\ exit_code' = 1
                           /\ UNCHANGED <<java_cmd, fs_dirs, created, summary_file, results,
                                          run_calls, last_run, last_outcome, ret>>
                      ELSE /\ fs_dirs' = fs_dirs \cup Parents(output_dir)
                           /\ created' = created \cup (Parents(output_dir) \ fs_dirs)
                           /\ java_cmd' = cmd
                           /\ run_calls' = Append(run_calls, apk_file)
                           /\ last_run' = run
                           /\ IF Raised(run) \in LibPassCaught \cup {"none"}
                              THEN /\ last_outcome' =
                                          LibPassOutcome(apk_file, output_dir, run)
                                   /\ Returned(last_outcome')
                              ELSE /\ raised_by' = "invocation"
                                   /\ pc' = "raised"
                                   /\ exit_code' = 1
                                   /\ UNCHANGED <<summary_file, results, last_outcome, ret>>

\* one iteration of the package loop of attack_batch: attack_single_apk on
\* the next package, given its own output directory and no platform jar;
\* after the last package the summary is written
LibPass_attack_batch_package ==
    /\ pc = "loop"
    /\ framework = "libpass"
    /\ LET apk_file == apk_files[Len(results) + 1]
           output_dir == PackageDir(apk_file)
           req == [android_jar |-> PyNone,
                   output_dir |-> PyPath(output_dir),
                   strategies |-> request.strategies]
       IN  LibPassAttack(apk_file, req)
    /\ UNCHANGED <<evars, framework, config_file, self_config, request, jars, operation,
                   apk_dir_exists, apk_files>>

\* LibPassAttackFramework.attack_single_apk called by main() for one package
LibPass_attack_single_apk ==
    /\ pc = "start"
    /\ framework = "libpass"
    /\ operation = "single"
    /\ LibPassAttack(apk_files[1], request)
    /\ UNCHANGED <<evars, framework, config_file, self_config, request, jars, operation,
                   apk_dir_exists, apk_files>>

\* ------------------------------------------------------------------------
\* automated_attack.py: AutomatedAttackFramework
\* ------------------------------------------------------------------------
\* the exceptions the except clauses of the automated variant catch
AutomatedCaught == {"TimeoutExpired", "OSError", "TypeError", "JSONDecodeError"}

\* AutomatedOutcome with the result file read after a timeout as well
AutomatedOutcome_TimeoutReadsFile(apk_path, tpl_name, run) ==
    CASE Raised(run) = "TimeoutExpired" /\ run.file.state = "valid" ->
            [success |-> FALSE, apk_path |-> apk_path, error |-> TimeoutMessage,
             result |-> run.file.content]
      [] Raised(run) = "TimeoutExpired" ->
            [success |-> FALSE, apk_path |-> apk_path, error |-> TimeoutMessage]
      [] Raised(run) \in {"OSError", "TypeError", "JSONDecodeError"} ->
            [success |-> FALSE, apk_path |-> apk_path, error |-> Raised(run)]
      [] Raised(run) = "none" /\ run.returncode = 0 ->
            [success |-> TRUE,
             apk_path |-> apk_path,
             tpl_name |-> tpl_name,
             result |-> IF run.file.state = "valid" THEN run.file.content
                        ELSE JObject(EmptyDict),
             stdout |-> run.stdout,
             stderr |-> run.stderr]
      [] OTHER ->
            [success |-> FALSE, apk_path |-> apk_path,
             error |-> run.stderr, stdout |-> run.stdout]

\* the dict AutomatedAttackFramework.attack_single_apk returns
AutomatedOutcome(apk_path, tpl_name, run) ==
    CASE Raised(run) = "TimeoutExpired" ->
            [success |-> FALSE, apk_path |-> apk_path, error |-> TimeoutMessage]
      [] Raised(run) \in {"OSError", "TypeError", "JSONDecodeError"} ->
            [success |-> FALSE, apk_path |-> apk_path, error |-> Raised(run)]
      [] Raised(run) = "none" /\ run.returncode = 0 ->
            LET attack_result ==
                    IF run.file.state = "valid" THEN run.file.content
                    ELSE JObject(EmptyDict)
            IN  [success |-> TRUE,
                 apk_path |-> apk_path,
                 tpl_name |-> tpl_name,
                 result |-> attack_result,
                 stdout |-> run.stdout,
                 stderr |-> run.stderr]
      [] OTHER ->
            [success |-> FALSE, apk_path |-> apk_path,
             error |-> run.stderr, stdout |-> run.stdout]

\* the dict AutomatedAttackFramework.attack_batch returns for the one native
\* batch run over a directory that enumerates n_apk_files packages
NativeBatchOutcome(n_apk_files, run) ==
    CASE Raised(run) = "TimeoutExpired" ->
            [success |-> FALSE, error |-> TimeoutMessage]
      [] Raised(run) \in {"OSError", "TypeError", "JSONDecodeError"} ->
            [success |-> FALSE, error |-> Raised(run)]
      [] Raised(run) = "none" /\ run.returncode = 0 ->
            LET batch_result ==
                    IF run.file.state = "valid" THEN run.file.content
                    ELSE JObject(EmptyDict)
            IN  [success |-> TRUE,
                 batch_result |-> batch_result,
                 success_rate |-> Get(batch_result.object, "successRate", Zero),
                 success_count |-> Get(batch_result.object, "successCount", 0),
                 total_apks |-> Get(batch_result.object, "totalApks", n_apk_files),
                 stdout |-> run.stdout]
      [] OTHER ->
            [success |-> FALSE, error |-> run.stderr, stdout |-> run.stdout]

\* AutomatedAttackFramework.attack_single_apk called by main() for one package
Automated_attack_single_apk ==
    /\ pc = "start"
    /\ framework = "automated"
    /\ operation = "single"
    /\ LET opt == ResolveDefaults("automated", self_config, request)
       IN  /\ resolved' = opt
           /\ IF ~opt.returned
              THEN /\ raised_by' = "config"
                   /\ pc' = "raised"
                   /\ exit_code' = 1
                   /\ UNCHANGED <<java_cmd, run_calls, last_run, last_outcome, ret>>
              ELSE \E run \in RunsOf(BuildCommand("automated", jars, PyPath(apk_files[1]),
                                                   opt.value), AutomatedRuns) :
                     /\ java_cmd' = BuildCommand("automated", jars, PyPath(apk_files[1]),
                                                 opt.value)
                     /\ run_calls' = Append(run_calls, apk_files[1])
                     /\ last_run' = run
                     /\ IF Raised(run) \in AutomatedCaught \cup {"none"}
                        THEN /\ last_outcome' = AutomatedOutcome(apk_files[1], "tpl", run)
                             /\ ret' = Return(last_outcome')
                             /\ pc' = "done"
                             /\ exit_code' = ResultExit(last_outcome')
                             /\ UNCHANGED raised_by
                        ELSE /\ raised_by' = "invocation"
                             /\ pc' = "raised"
                             /\ exit_code' = 1
                             /\ UNCHANGED <<last_outcome, ret>>
    /\ UNCHANGED <<evars, framework, config_file, self_config, request, jars, operation,
                   apk_dir_exists, apk_files, fs_dirs, created, summary_file, results>>

\* attack_batch refuses a directory that does not exist
AutomatedDirMissing == ~apk_dir_exists

\* AutomatedAttackFramework.attack_batch: one native batch run over the
\* directory; main() exits on the returned dict
Automated_attack_batch ==
    /\ pc = "start"
    /\ framework = "automated"
    /\ operation = "batch"
    /\ IF AutomatedDirMissing
       THEN /\ ret' = Return(EmptyDict)
            /\ pc' = "done"
            /\ exit_code' = ResultExit(EmptyDict)
            /\ UNCHANGED <<resolved, java_cmd, run_calls, last_run, last_outcome, raised_by>>
       ELSE LET opt == ResolveDefaults("automated", self_config, request)
            IN  /\ resolved' = opt
                /\ IF ~opt.returned
                   THEN /\ raised_by' = "config"
                        /\ pc' = "raised"
                        /\ exit_code' = 1
                        /\ UNCHANGED <<java_cmd, run_calls, last_run, last_outcome, ret>>
                   ELSE \E run \in RunsOf(BuildCommand("automated", jars,
                                                        PyPath("directory"), opt.value),
                                           NativeBatchRuns) :
                          /\ java_cmd' = BuildCommand("automated", jars,
                                                      PyPath("directory"), opt.value)
                          /\ run_calls' = Append(run_calls, "directory")
                          /\ last_run' = run
                          /\ IF Raised(run) \in AutomatedCaught \cup {"none"}
                             THEN /\ last_outcome' = NativeBatchOutcome(Len(apk_files), run)
                                  /\ ret' = Return(last_outcome')
                                  /\ pc' = "done"
                                  /\ exit_code' = ResultExit(last_outcome')
                                  /\ UNCHANGED raised_by
                             ELSE /\ raised_by' = "invocation"
                                  /\ pc' = "raised"
                                  /\ exit_code' = 1
                                  /\ UNCHANGED <<last_outcome, ret>>
    /\ UNCHANGED <<evars, framework, config_file, self_config, request, jars, operation,
                   apk_dir_exists, apk_files, fs_dirs, created, summary_file, results>>

\* ------------------------------------------------------------------------
\* The attack programs
\* ------------------------------------------------------------------------
EvaluatorIdle ==
    /\ result_file = Unopened
    /\ self_results = <<>>
    /\ self_metrics = EmptyDict
    /\ loaded = NoReturn
    /\ returned = NoReturn
    /\ report_file = NoSummary
    /\ epc = "idle"

\* the package files a directory enumerates: packages 1..n
Listing(n) == [i \in 1..n |-> i]

\* the optional arguments main() passes: the basic command passes its output
\* option and leaves the platform jar and the strategies unset, the automated
\* command passes its iteration and detector options, which have defaults
MainRequest(fw) ==
    IF fw = "libpass"
    THEN [android_jar |-> PyNone, output_dir |-> GivenOutputDir, strategies |-> PyNone]
    ELSE [max_iterations |-> PyInt(DefaultMaxIterations),
          detector_type |-> DefaultDetectorType]

\* nothing has been attacked yet
NothingAttacked ==
    /\ resolved = NoReturn
    /\ java_cmd = NoCommand
    /\ fs_dirs \in {{}, {Base}}
    /\ created = {}
    /\ summary_file = NoSummary
    /\ results = <<>>
    /\ run_calls = <<>>
    /\ last_run = NoRun
    /\ last_outcome = NoOutcome
    /\ ret = NoReturn
    /\ raised_by = "none"
    /\ exit_code = -1

\* the framework constructed by main(), run with no configuration file and
\* with an empty one, the primary bundle built
Init ==
    /\ EvaluatorIdle
    /\ NothingAttacked
    /\ framework \in {"libpass", "automated"}
    /\ config_file \in {[kind |-> "absent"], [kind |-> "valid", document |-> PyNone]}
    /\ self_config = load_config(framework, config_file).value
    /\ request = MainRequest(framework)
    /\ jars = [primary |-> TRUE, alternate |-> FALSE]
    /\ pc = "start"
    /\ operation \in {"single", "batch"}
    /\ apk_dir_exists \in BOOLEAN
    /\ apk_files \in {Listing(n) : n \in 0..MaxApks}
    /\ operation = "single" => (apk_dir_exists /\ apk_files = Listing(1))
    /\ ~apk_dir_exists => apk_files = <<>>

Next ==
    \/ LibPass_attack_single_apk
    \/ LibPass_attack_batch
    \/ LibPass_attack_batch_package
    \/ Automated_attack_single_apk
    \/ Automated_attack_batch

Spec == Init /\ [][Next]_vars

\* ------------------------------------------------------------------------
\* One package attacked under every configuration file, every choice of
\* optional arguments and every set of built bundles
\* ------------------------------------------------------------------------
\* __init__ of either framework: self.config = self.load_config(config_path);
\* an exception load_config lets through ends the command
FrameworkInit ==
    /\ pc = "init"
    /\ LET config == load_config(framework, config_file)
       IN  IF config.returned
           THEN /\ self_config' = config.value
                /\ pc' = "start"
                /\ UNCHANGED <<raised_by, exit_code>>
           ELSE /\ raised_by' = "load_config"
                /\ pc' = "raised"
                /\ exit_code' = 1
                /\ UNCHANGED self_config
    /\ UNCHANGED <<evars, framework, config_file, request, jars, resolved, java_cmd,
                   operation, apk_dir_exists, apk_files, fs_dirs, created, summary_file,
                   results, run_calls, last_run, last_outcome, ret>>

InitConfig ==
    /\ EvaluatorIdle
    /\ NothingAttacked
    /\ framework \in {"libpass", "automated"}
    /\ config_file \in ConfigFiles(framework)
    /\ self_config = PyNone
    /\ request \in Requests(framework)
    /\ jars \in [primary : BOOLEAN, alternate : BOOLEAN]
    /\ operation = "single"
    /\ apk_dir_exists = TRUE
    /\ apk_files = Listing(1)
    /\ pc = "init"

NextConfig ==
    \/ FrameworkInit
    \/ LibPass_attack_single_apk
    \/ Automated_attack_single_apk

SpecConfig == InitConfig /\ [][NextConfig]_vars

\* ------------------------------------------------------------------------
\* Properties of the attack programs
\* ------------------------------------------------------------------------
\* last_outcome is what the program returned for the child process last_run
HasOutcome == run_calls # <<>> /\ raised_by # "invocation"

LoopBatch == framework = "libpass" /\ operation = "batch"

Failed(outcome) == ~Get(outcome, "success", FALSE)

\* C2: in the per-package loop a failing package (non-zero exit, timeout, an
\* exception raised by the invocation) never aborts the batch: packages are
\* invoked once each in enumeration order, every invoked package has its
\* outcome at its own position, the loop goes on after any outcome, and the
\* finished batch holds one outcome per enumerated package.
C2_FailingPackageNeverAbortsBatch ==
    LoopBatch =>
        /\ raised_by # "invocation"
        /\ Len(run_calls) <= Len(apk_files)
        /\ run_calls = SubSeq(apk_files, 1, Len(run_calls))
        /\ Len(results) = Len(run_calls)
        /\ \A i \in 1..Len(results) : results[i].apk_path = apk_files[i]
        /\ (pc = "loop" => /\ Len(results) < Len(apk_files)
                           /\ ENABLED LibPass_attack_batch_package)
        /\ ((pc = "done" /\ apk_dir_exists) =>
               /\ Len(results) = Len(apk_files)
               /\ ret = Return(results))

\* a finished batch of three whose first package timed out and whose second
\* exited non-zero, the third having been attacked successfully
C2_Witness ==
    /\ LoopBatch
    /\ pc = "done"
    /\ Len(results) = 3
    /\ Get(results[1], "error", "none") = TimeoutMessage
    /\ Failed(results[2])
    /\ results[3].success
    /\ run_calls = <<1, 2, 3>>

\* the sum of rate[i] over a finite set of indices
RECURSIVE SumOver(_, _)
SumOver(I, rate) ==
    IF I = {} THEN Zero
    ELSE LET i == CHOOSE x \in I : TRUE
         IN  RatAdd(rate[i], SumOver(I \ {i}, rate))

SuccessfulIndices(rs) == {i \in 1..Len(rs) : Get(rs[i], "success", FALSE)}

\* C3: the persisted BatchSummary counts the outcomes, counts those with
\* success true, reports the difference as failed, and averages
\* overall_success_rate over the successful outcomes alone (0 when none).
C3_BatchSummaryCounts ==
    summary_file.written =>
        LET doc == summary_file.content
            ok == SuccessfulIndices(results)
        IN  /\ doc.total_apks = Len(results)
            /\ doc.successful_attacks = Cardinality(ok)
            /\ doc.failed_attacks = doc.total_apks - doc.successful_attacks
            /\ doc.failed_attacks = Cardinality({i \in 1..Len(results) : Failed(results[i])})
            /\ doc.detailed_results = results
            /\ IF ok = {}
               THEN doc.average_success_rate = Zero
               ELSE doc.average_success_rate =
                       RatDivInt(SumOver(ok, [i \in ok |-> results[i].overall_success_rate]),
                                 Cardinality(ok))

\* three packages: one timed out, two succeeded with rates 1 and 1/2; the
\* summary averages the two successes to 3/4
C3_Witness ==
    /\ summary_file.written
    /\ Len(results) = 3
    /\ \E i \in 1..3 : Get(results[i], "error", "none") = TimeoutMessage
    /\ summary_file.content.successful_attacks = 2
    /\ summary_file.content.failed_attacks = 1
    /\ summary_file.content.average_success_rate = Rat(3, 4)

\* C5: a batch given a directory that does not exist returns an empty
\* summary at once: no child process is run, no directory is created and no
\* summary file is written, in the per-package loop and in the native batch.
C5_MissingDirectoryDoesNothing ==
    (operation = "batch" /\ ~apk_dir_exists /\ pc # "start") =>
        /\ pc = "done"
        /\ ret = Return(IF framework = "libpass" THEN <<>> ELSE EmptyDict)
        /\ run_calls = <<>>
        /\ results = <<>>
        /\ created = {}
        /\ summary_file = NoSummary

C5_Witness ==
    /\ operation = "batch"
    /\ framework = "automated"
    /\ ~apk_dir_exists
    /\ pc = "done"

\* C6: a zero exit whose result file is absent gives a successful outcome
\* with an empty payload and no error: an empty list and rate 0 in the basic
\* variant, an empty object in the automated single and native batch runs.
C6_ZeroExitMissingFileIsEmptySuccess ==
    (HasOutcome /\ last_run.kind = "exit" /\ last_run.returncode = 0
                /\ last_run.file = Absent) =>
        /\ last_outcome.success = TRUE
        /\ "error" \notin DOMAIN last_outcome
        /\ framework = "libpass" =>
              /\ last_outcome.results = <<>>
              /\ last_outcome.overall_success_rate = Zero
        /\ (framework = "automated" /\ operation = "single") =>
              last_outcome.result = JObject(EmptyDict)
        /\ (framework = "automated" /\ operation = "batch") =>
              last_outcome.batch_result = JObject(EmptyDict)

\* the second package of a batch exits zero and leaves no result file
C6_Witness ==
    /\ LoopBatch
    /\ Len(results) = 2
    /\ last_run.kind = "exit"
    /\ last_run.returncode = 0
    /\ last_run.file = Absent
    /\ results[2].success

PayloadKeys == {"results", "overall_success_rate", "result", "batch_result",
                "success_rate", "success_count", "total_apks"}

\* C7: when the timeout elapses the outcome is a failure with the timeout
\* error and no result payload, whatever the child left in the result file,
\* and the request has led to one child process execution.
C7_TimeoutFailsWithoutPayloadOrRetry ==
    (HasOutcome /\ last_run.kind = "timeout") =>
        /\ last_outcome.success = FALSE
        /\ last_outcome.error = TimeoutMessage
        /\ DOMAIN last_outcome \cap PayloadKeys = {}
        /\ Cardinality({i \in 1..Len(run_calls) : run_calls[i] = run_calls[Len(run_calls)]}) = 1
        /\ Len(run_calls) = IF LoopBatch THEN Len(results) ELSE 1

\* the child of the first package of a batch timed out after writing a
\* result file, and the batch has gone on to the next package
C7_Witness ==
    /\ LoopBatch
    /\ Len(results) = 1
    /\ pc = "loop"
    /\ last_run.kind = "timeout"
    /\ last_run.file.state = "valid"
    /\ last_run.file.content # <<>>

\* C8: every outcome returned for a child process that ran carries the
\* captured standard output and the captured standard error (the error
\* stream counted as carried when it is the outcome's error message).
C8_OutcomeCarriesStdoutAndStderr ==
    (HasOutcome /\ last_run.kind \in {"exit", "timeout"}) =>
        /\ "stdout" \in DOMAIN last_outcome
        /\ last_outcome.stdout = last_run.stdout
        /\ \/ /\ "stderr" \in DOMAIN last_outcome
              /\ last_outcome.stderr = last_run.stderr
           \/ /\ "error" \in DOMAIN last_outcome
              /\ last_outcome.error = last_run.stderr

\* the keys under which a batch result reports each part of a BatchSummary
RoleKeys ==
    [total |-> {"total_apks"},
     successful |-> {"successful_attacks", "success_count"},
     failed |-> {"failed_attacks", "failed_count"},
     average |-> {"average_success_rate", "success_rate"},
     outcomes |-> {"detailed_results", "results"}]

ShapeOf(doc) == {r \in DOMAIN RoleKeys : RoleKeys[r] \cap DOMAIN doc # {}}

\* what a finished batch has produced: the summary document of the package
\* loop, the returned dict of the native batch
BatchProduct ==
    IF framework = "libpass"
    THEN IF summary_file.written THEN summary_file.content ELSE EmptyDict
    ELSE ret.value

\* a batch over an existing directory of packages has finished, the native
\* batch with a successful run
BatchSucceeded ==
    /\ operation = "batch"
    /\ pc = "done"
    /\ apk_dir_exists
    /\ apk_files # <<>>
    /\ framework = "automated" => ret.value.success

\* C12: the package loop and the native batch both produce the BatchSummary
\* shape: total, successful and failed counts, an average success rate and
\* the list of per-package outcomes.
C12_BothBatchPathsGiveSummaryShape ==
    BatchSucceeded => ShapeOf(BatchProduct) = DOMAIN RoleKeys

\* the package loop alone always produces the full shape (holds)
LoopGivesSummaryShape ==
    (BatchSucceeded /\ LoopBatch) => ShapeOf(BatchProduct) = DOMAIN RoleKeys

\* the mechanism of a batch failed: an exception ended the command, or the
\* one native batch invocation failed
MechanismFailed ==
    \/ pc = "raised"
    \/ pc = "done" /\ framework = "automated" /\ Failed(ret.value)

\* C15: a batch command that has attacked at least one package exits
\* non-zero only when the directory is missing or the invocation mechanism
\* failed, however many packages failed.
C15_BatchExitsNonZeroOnlyOnMechanismFailure ==
    (operation = "batch" /\ pc \in {"done", "raised"} /\ run_calls # <<>> /\ exit_code # 0) =>
        (~apk_dir_exists \/ MechanismFailed)

\* C13: load_config lets no exception through, and for a configuration file
\* that is absent, unreadable or not YAML self.config is the built-in default
\* configuration of the framework.
C13_LoadConfigFallsBackToDefaults ==
    pc # "init" =>
        /\ raised_by # "load_config"
        /\ (config_file.kind \in {"absent", "unreadable", "malformed"} =>
               self_config = get_default_config(framework))

\* the automated framework constructed over a file that is not YAML
C13_Witness ==
    /\ pc = "start"
    /\ framework = "automated"
    /\ config_file.kind = "malformed"
    /\ self_config = Automated_get_default_config

\* C14: whatever document load_config accepted, the optional fields of a
\* request resolve without an exception, each to a value that is not None.
C14_ResolvedFieldsAreNeverNone ==
    (pc \in {"done", "raised"} /\ config_file.kind = "valid") =>
        /\ resolved.returned
        /\ \A f \in OptionalFields(framework) : resolved.value[f].py # "None"

\* the classpath element by the priority primary, alternate, class directories
ClasspathByPriority ==
    IF jars.primary THEN PrimaryJar(framework)
    ELSE IF jars.alternate THEN AlternateJar(framework)
    ELSE ClassDirectories

\* the positional arguments after the entry point
PositionalArguments ==
    IF framework = "libpass"
    THEN <<PyPath(apk_files[1]), resolved.value.android_jar, resolved.value.output_dir>>
    ELSE <<PyPath(apk_files[1]), TplPath, TplName, GivenAndroidJar, GivenOutputDir,
           resolved.value.detector_type, str(resolved.value.max_iterations)>>

\* C17: the argument list is java, -cp, the classpath chosen by priority
\* (primary bundle, else alternate bundle, else class directories), the
\* entry point, and the positional arguments in their fixed order, the same
\* whichever classpath is chosen.
C17_CommandHasPriorityClasspathAndFixedOrder ==
    java_cmd # NoCommand =>
        java_cmd = <<PyStr("java"), PyStr("-cp"), ClasspathByPriority,
                     java_main_class(framework)>> \o PositionalArguments

\* only the alternate bundle exists and the automated command names it
C17_Witness ==
    /\ java_cmd # NoCommand
    /\ framework = "automated"
    /\ ~jars.primary
    /\ jars.alternate
    /\ java_cmd[3] = PyStr("build/libs/src-all.jar")
    /\ Len(java_cmd) = 11

====
